---- MODULE Spec2Model ----
(***************************************************************************)
(* Model of the message-delivery subsystem of the Triangle Messaging       *)
(* backend (src/app/chat_routes.py, src/app/user_routes.py).               *)
(*                                                                         *)
(* The server is one asyncio event loop: a handler runs without            *)
(* interruption between two awaits, so every action below is the code      *)
(* that runs from one suspension point to the next.  The pymongo and       *)
(* firebase calls are blocking calls, not suspension points.               *)
(***************************************************************************)
EXTENDS Integers, Sequences, FiniteSets, TLC

\* ---------------------------------------------------------------- bounds
MaxTasks == 3       \* number of requests of a behaviour: POST /send requests
                    \* and /ws/{username} connections together
MaxClock == 1       \* largest value of the server clock

\* ---------------------------------------------------------------- inputs
\* The people that use the service: each client always presents its own
\* (email, username) pair to POST /connect; the third component is the _id
\* the store assigns to that person's document.
Persons   == { <<"a@x.com", "alice", 1>>, <<"b@x.com", "bob", 2>> }
Usernames == { p[2] : p \in Persons }   \* the {username} of /ws/{username}
Senders   == { "a@x.com" }           \* sender_email of the POST /send requests
Receivers == Usernames               \* receiver_username of the POST /send requests
Tokens    == { "tok1" }              \* push-notification tokens
TokenHolders == { "b@x.com" }        \* the users whose device registers a token
NoToken   == "None"                  \* a user document without fcm_token
NoTs      == -1                      \* Message.timestamp = None
ClientTs  == MaxClock + 5            \* a timestamp supplied by the client
ClientTimestamps == { NoTs, ClientTs }
\* the timestamp field of request s: every other request carries one
ClientTimestampsOf(s) == IF s % 2 = 1 THEN { ClientTs } ELSE { NoTs }
NoId      == 0                       \* no document
NoWs      == 0                       \* no websocket
SendIds   == 1..MaxTasks
\* the opaque (encrypted) content of request s
Content(s) == << "c0", "c1", "c2", "c3", "c4", "c5" >>[s + 1]
WsIds     == 1..MaxTasks

VARIABLES
    users,                \* users_collection: set of user documents
    messages,             \* messages_collection: documents in insertion order
    active_connections,   \* manager.active_connections: username -> websocket
    ws,                   \* the /ws connections: task position and client side
    send,                 \* the POST /send requests: position, locals, response
    delivered,            \* text frames written to websockets
    notified,             \* invocations of messaging.send (notification sink)
    now,                  \* the server clock at its last read by datetime.utcnow()
    clock_went_back,      \* history: some read of the clock was earlier than the read before
    superseded,           \* history: websockets replaced in the mapping by a later connect
    reply                 \* the response to the last GET /history or GET /conversations

vars == << users, messages, active_connections, ws, send, delivered, notified, now, clock_went_back,
          superseded, reply >>

\* ------------------------------------------------------- database lookups
NoUser == [ _id |-> NoId, email |-> "None", username |-> "None", fcm_token |-> NoToken ]

\* users_collection.find_one({"email": email})
find_one_email(coll, email) ==
    IF \E u \in coll : u.email = email
    THEN CHOOSE u \in coll : u.email = email
    ELSE NoUser

\* users_collection.find_one({"username": username})
find_one_username(coll, username) ==
    IF \E u \in coll : u.username = username
    THEN CHOOSE u \in coll : u.username = username
    ELSE NoUser

\* variant: the resolution check is missing
not_found_never(user) == FALSE

\* `if not sender:` / `if not receiver:`
not_found(user) == user = NoUser

\* variant: the write is lost
insert_one_lost(coll, doc) == coll

\* messages_collection.insert_one(msg_data)
insert_one(coll, doc) == Append(coll, doc)

\* ------------------------------------------------------ ConnectionManager
\* ConnectionManager.__init__
no_connections == [ u \in Usernames |-> NoWs ]

\* variant: an existing entry is kept
connect_keep(conns, username, websocket) ==
    IF conns[username] = NoWs THEN [ conns EXCEPT ![username] = websocket ] ELSE conns

\* ConnectionManager.connect, the assignment after the accept
connect(conns, username, websocket) == [ conns EXCEPT ![username] = websocket ]

\* ConnectionManager.disconnect
disconnect(conns, username) ==
    IF conns[username] # NoWs THEN [ conns EXCEPT ![username] = NoWs ] ELSE conns

\* ConnectionManager.send_personal_message: `if username in self.active_connections`
registered(conns, username) == conns[username] # NoWs

\* ------------------------------------------------------------- send_message
\* class Message
Message(email, username, content, ts) ==
    [ sender_email |-> email, receiver_username |-> username,
      content |-> content, timestamp |-> ts ]

\* datetime.isoformat
isoformat(t) == << "iso", t >>

\* json.dumps
json_dumps(obj) == << "json", obj >>

\* variant: a timestamp the client supplied is kept
msg_data_keep_timestamp(id, message, sender, receiver, utcnow) ==
    [ _id |-> id,
      sender_email |-> message.sender_email,
      receiver_username |-> message.receiver_username,
      content |-> message.content,
      timestamp |-> IF message.timestamp # NoTs THEN message.timestamp ELSE utcnow,
      sender_id |-> sender._id,
      receiver_id |-> receiver._id ]

\* msg_data = message.dict() with timestamp, sender_id, receiver_id set;
\* insert_one adds the _id, which is unique per inserted document
msg_data(id, message, sender, receiver, utcnow) ==
    [ _id |-> id,
      sender_email |-> message.sender_email,
      receiver_username |-> message.receiver_username,
      content |-> message.content,
      timestamp |-> utcnow,
      sender_id |-> sender._id,
      receiver_id |-> receiver._id ]

\* variant: the payload carries the timestamp of the request when it has one
payload_client_timestamp(sender, message, data) ==
    json_dumps([ sender_username |-> sender.username,
                 content |-> message.content,
                 timestamp |-> isoformat(IF message.timestamp # NoTs
                                         THEN message.timestamp ELSE data.timestamp) ])

\* the text pushed on the receiver's websocket
payload(sender, message, data) ==
    json_dumps([ sender_username |-> sender.username,
                 content |-> message.content,
                 timestamp |-> isoformat(data.timestamp) ])

\* variant: the notification step never runs
has_token_never(receiver) == FALSE

\* `if receiver.get("fcm_token"):`
has_token(receiver) == receiver.fcm_token # NoToken

\* variant: the notification body carries the message content
fcm_message_leak(message, sender, receiver) ==
    [ token |-> receiver.fcm_token,
      title |-> << "New message from ", sender.username >>,
      body  |-> message.content,
      data  |-> [ type |-> "new_message", sender |-> sender.username ] ]

\* messaging.Message(notification=..., token=..., data=...)
fcm_message(message, sender, receiver) ==
    [ token |-> receiver.fcm_token,
      title |-> << "New message from ", sender.username >>,
      body  |-> "Tap to view the message",
      data  |-> [ type |-> "new_message", sender |-> sender.username ] ]

\* raise HTTPException(status_code=..., detail=...)
HTTPException(status, detail) == [ status |-> status, detail |-> detail ]

\* variant: the except clause logs the error and the handler returns normally
send_except_swallow(exc) == [ status |-> 200, detail |-> "Message sent" ]

\* `except Exception as e:` of send_message: HTTPException is an Exception,
\* so whatever is raised inside the try block leaves as the 500 response
send_except(exc) == HTTPException(500, "Failed to send message")

\* return {"status": "Message sent"}
MessageSent == [ status |-> 200, detail |-> "Message sent" ]
NoResponse  == [ status |-> 0, detail |-> "" ]

\* no GET request answered yet
NoReply ==
    [ op |-> "none", email |-> "None", username |-> "None", limit |-> 0,
      resp |-> NoResponse, body |-> << >> ]

IdleSend ==
    [ pc |-> "idle", message |-> Message("None", "None", Content(0), NoTs),
      sender |-> NoUser, receiver |-> NoUser, target |-> NoWs, text |-> json_dumps("None"),
      stale |-> FALSE, push |-> "none", error |-> "", resp |-> NoResponse ]

\* variant: the notification step has no try/except of its own
notify_then_return_unguarded(receiver, fcmUp) ==
    IF receiver.fcm_token # NoToken /\ ~ fcmUp
    THEN HTTPException(500, "Failed to send message")
    ELSE MessageSent

\* the response after the notification step: `except Exception as fcm_error`
\* logs a failure of messaging.send and the handler goes on to its return
notify_then_return(receiver, fcmUp) == MessageSent

\* step 2 of send_message: the notification, then the return
\* (fcmUp: whether messaging.send succeeds; a failure is logged and dropped)
Notifications(s, message, sender, receiver, fcmUp) ==
    IF has_token(receiver)
    THEN { [ sid |-> s, msg |-> fcm_message(message, sender, receiver), ok |-> fcmUp ] }
    ELSE {}

\* ------------------------------------------------------------------- Init
Init ==
    /\ users = {}
    /\ messages = << >>
    /\ active_connections = no_connections
    /\ ws = [ w \in WsIds |-> [ pc |-> "new", username |-> "None", alive |-> FALSE ] ]
    /\ send = [ s \in SendIds |-> IdleSend ]
    /\ delivered = {}
    /\ notified = {}
    /\ now = 0
    /\ clock_went_back = FALSE
    /\ superseded = {}
    /\ reply = NoReply

\* ---------------------------------------------------------------- actions
\* the number of requests the server has taken up
Started ==
    Cardinality({ s \in SendIds : send[s].pc # "idle" })
        + Cardinality({ w \in WsIds : ws[w].pc # "new" })

\* datetime.utcnow(): the values the clock can show at a read, given the
\* value of the read before.  It is the wall clock: time passes between
\* two reads, or does not, or the clock is set back.
utcnow(last) == 0..MaxClock

\* POST /connect: upsert of the user document by email
connect_to_messaging ==
    /\ \E p \in Persons :
        /\ find_one_email(users, p[1]) = NoUser
        /\ users' = users \cup { [ _id |-> p[3], email |-> p[1],
                                   username |-> p[2], fcm_token |-> NoToken ] }
    /\ UNCHANGED << messages, active_connections, ws, send, delivered, notified, now, clock_went_back, reply, superseded >>

\* token refresh: the user document gets a push-notification token
update_fcm_token ==
    /\ \E u \in users, t \in Tokens :
        /\ u.email \in TokenHolders
        /\ u.fcm_token = NoToken
        /\ users' = (users \ {u}) \cup { [ u EXCEPT !.fcm_token = t ] }
    /\ UNCHANGED << messages, active_connections, ws, send, delivered, notified, now, clock_went_back, reply, superseded >>

\* websocket_endpoint is entered and suspends in `await websocket.accept()`
WsOpen(w) ==
    /\ ws[w].pc = "new"
    /\ Started < MaxTasks
    /\ \A v \in WsIds : v < w => ws[v].pc # "new"      \* sockets are numbered in arrival order
    /\ \E u \in Usernames :
        ws' = [ ws EXCEPT ![w] = [ pc |-> "accepting", username |-> u, alive |-> TRUE ] ]
    /\ UNCHANGED << users, messages, active_connections, send, delivered, notified, now, clock_went_back, reply, superseded >>

\* the accept returns: the mapping is written and the receive loop starts
WsAccepted(w) ==
    /\ ws[w].pc = "accepting"
    /\ active_connections' = connect(active_connections, ws[w].username, w)
    /\ ws' = [ ws EXCEPT ![w].pc = "open" ]
    /\ superseded' = superseded \cup
          ( IF registered(active_connections, ws[w].username)
            THEN { active_connections[ws[w].username] } ELSE {} )
    /\ UNCHANGED << users, messages, send, delivered, notified, now, clock_went_back, reply >>

\* the accept raises (the client went away during the handshake): connect is
\* outside the try block, the task ends
WsAcceptFails(w) ==
    /\ ws[w].pc = "accepting"
    /\ ws' = [ ws EXCEPT ![w].pc = "ended", ![w].alive = FALSE ]
    /\ UNCHANGED << users, messages, active_connections, send, delivered, notified, now, clock_went_back, reply, superseded >>

\* the client side of an accepted connection closes or its transport breaks
ClientClose(w) ==
    /\ ws[w].pc = "open"
    /\ ws[w].alive
    /\ ws' = [ ws EXCEPT ![w].alive = FALSE ]
    /\ UNCHANGED << users, messages, active_connections, send, delivered, notified, now, clock_went_back, reply, superseded >>

\* `await websocket.receive_text()` raises WebSocketDisconnect
WsDisconnect(w) ==
    /\ ws[w].pc = "open"
    /\ ~ ws[w].alive
    /\ active_connections' = disconnect(active_connections, ws[w].username)
    /\ ws' = [ ws EXCEPT ![w].pc = "ended" ]
    /\ UNCHANGED << users, messages, send, delivered, notified, now, clock_went_back, reply, superseded >>

\* `await websocket.receive_text()` raises anything else (a binary frame
\* makes receive_text raise KeyError): no except clause matches, the task
\* ends and the server closes the socket
WsReceiveFails(w) ==
    /\ ws[w].pc = "open"
    /\ ws' = [ ws EXCEPT ![w].pc = "ended", ![w].alive = FALSE ]
    /\ UNCHANGED << users, messages, active_connections, send, delivered, notified, now, clock_went_back, reply, superseded >>

\* POST /send up to its first suspension point: resolve, persist, look the
\* receiver up; when the receiver is not registered send_personal_message
\* returns without suspending and the handler runs to its end
SendMessage(s) ==
    /\ send[s].pc = "idle"
    /\ Started < MaxTasks
    /\ \A r \in SendIds : r < s => send[r].pc # "idle"  \* requests are numbered in arrival order
    /\ \E email \in Senders, username \in Receivers, ts \in ClientTimestampsOf(s),
          storageUp \in BOOLEAN, fcmUp \in BOOLEAN, t \in utcnow(now) :
        LET message  == Message(email, username, Content(s), ts)
            sender   == find_one_email(users, email)
            receiver == find_one_username(users, username)
            data     == msg_data(s, message, sender, receiver, t)
            locals   == [ IdleSend EXCEPT !.message = message ]
        IN
        IF not_found(sender) THEN
            /\ send' = [ send EXCEPT ![s] = [ locals EXCEPT !.pc = "done",
                            !.error = "Sender not found",
                            !.resp = send_except(HTTPException(404, "Sender not found")) ] ]
            /\ UNCHANGED << messages, notified, now, clock_went_back >>
        ELSE IF not_found(receiver) THEN
            /\ send' = [ send EXCEPT ![s] = [ locals EXCEPT !.pc = "done",
                            !.error = "Receiver not found",
                            !.resp = send_except(HTTPException(404, "Receiver not found")) ] ]
            /\ UNCHANGED << messages, notified, now, clock_went_back >>
        ELSE IF ~ storageUp THEN
            /\ send' = [ send EXCEPT ![s] = [ locals EXCEPT !.pc = "done",
                            !.error = "insert_one failed",
                            !.resp = send_except("insert_one failed") ] ]
            /\ now' = t /\ clock_went_back' = (clock_went_back \/ t < now)
            /\ UNCHANGED << messages, notified >>
        ELSE IF registered(active_connections, username) THEN
            /\ messages' = insert_one(messages, data)
            /\ send' = [ send EXCEPT ![s] = [ locals EXCEPT !.pc = "sending",
                            !.sender = sender, !.receiver = receiver,
                            !.target = active_connections[username],
                            !.text = payload(sender, message, data),
                            !.stale = (active_connections[username] \in superseded),
                            !.push = "pending" ] ]
            /\ now' = t /\ clock_went_back' = (clock_went_back \/ t < now)
            /\ UNCHANGED notified
        ELSE
            /\ messages' = insert_one(messages, data)
            /\ now' = t /\ clock_went_back' = (clock_went_back \/ t < now)
            /\ notified' = notified \cup Notifications(s, message, sender, receiver, fcmUp)
            /\ send' = [ send EXCEPT ![s] = [ locals EXCEPT !.pc = "done",
                            !.resp = notify_then_return(receiver, fcmUp) ] ]
    /\ UNCHANGED << users, active_connections, ws, delivered, superseded, reply >>

\* variant: the text goes to every open websocket of the receiver
SendTextReturns_broadcast(s) ==
    /\ send[s].pc = "sending"
    /\ ws[send[s].target].alive
    /\ \E fcmUp \in BOOLEAN :
        /\ delivered' = delivered \cup
              { [ sid |-> s, ws |-> w, text |-> send[s].text, stale |-> send[s].stale ] :
                  w \in { v \in WsIds : /\ ws[v].pc = "open"
                                        /\ ws[v].username = ws[send[s].target].username } }
        /\ notified' = notified \cup Notifications(s, send[s].message, send[s].sender, send[s].receiver, fcmUp)
        /\ send' = [ send EXCEPT ![s] = [ IdleSend EXCEPT !.pc = "done",
                        !.message = send[s].message, !.push = "ok",
                        !.resp = notify_then_return(send[s].receiver, fcmUp) ] ]
    /\ UNCHANGED << users, messages, active_connections, ws, now, clock_went_back, reply, superseded >>

\* `await ...send_text(message)` returns: the frame is on the channel; then
\* the notification step and the return (the handler's locals end with it)
SendTextReturns(s) ==
    /\ send[s].pc = "sending"
    /\ ws[send[s].target].alive
    /\ \E fcmUp \in BOOLEAN :
        /\ delivered' = delivered \cup
              { [ sid |-> s, ws |-> send[s].target, text |-> send[s].text,
                  stale |-> send[s].stale ] }
        /\ notified' = notified \cup Notifications(s, send[s].message, send[s].sender, send[s].receiver, fcmUp)
        /\ send' = [ send EXCEPT ![s] = [ IdleSend EXCEPT !.pc = "done",
                        !.message = send[s].message, !.push = "ok",
                        !.resp = notify_then_return(send[s].receiver, fcmUp) ] ]
    /\ UNCHANGED << users, messages, active_connections, ws, now, clock_went_back, reply, superseded >>

\* `await ...send_text(message)` raises (the channel is dead): the exception
\* reaches the outer except clause of send_message
SendTextRaises(s) ==
    /\ send[s].pc = "sending"
    /\ ~ ws[send[s].target].alive
    /\ send' = [ send EXCEPT ![s] = [ IdleSend EXCEPT !.pc = "done",
                    !.message = send[s].message, !.push = "failed",
                    !.error = "send_text failed",
                    !.resp = send_except("send_text failed") ] ]
    /\ UNCHANGED << users, messages, active_connections, ws, delivered, notified, now, clock_went_back, reply, superseded >>

Next ==
    \/ connect_to_messaging
    \/ update_fcm_token
    \/ \E w \in WsIds : WsOpen(w)
    \/ \E w \in WsIds : WsAccepted(w)
    \/ \E w \in WsIds : WsAcceptFails(w)
    \/ \E w \in WsIds : ClientClose(w)
    \/ \E w \in WsIds : WsDisconnect(w)
    \/ \E w \in WsIds : WsReceiveFails(w)
    \/ \E s \in SendIds : SendMessage(s)
    \/ \E s \in SendIds : SendTextReturns(s)
    \/ \E s \in SendIds : SendTextRaises(s)

Spec == Init /\ [][Next]_vars
\* ================================================================ claims
Delivered(s) == { d \in delivered : d.sid = s }
Notified(s)  == { n \in notified : n.sid = s }
Persisted(s) == \E i \in 1..Len(messages) : messages[i]._id = s

\* the payload that the stored document m produces
PayloadOf(m, username) ==
    json_dumps([ sender_username |-> username, content |-> m.content,
                 timestamp |-> isoformat(m.timestamp) ])

\* a text on a channel keyed by receiver has a stored message with the same
\* sender, receiver, content and timestamp
Recorded(text, receiver) ==
    \E i \in 1..Len(messages) : \E u \in users :
        /\ u._id = messages[i].sender_id
        /\ text = PayloadOf(messages[i], u.username)
        /\ messages[i].receiver_username = receiver

\* C1: every payload delivered on a channel, and every payload whose push is
\* in progress, has a matching message in the store (same sender, receiver,
\* content and timestamp): the insert precedes the push.
C1_PersistedBeforePush ==
    /\ \A d \in delivered : Recorded(d.text, ws[d.ws].username)
    /\ \A s \in SendIds : send[s].pc = "sending" =>
           Recorded(send[s].text, ws[send[s].target].username)

C1_Witness == \E d \in delivered : Recorded(d.text, ws[d.ws].username)

\* C2: a finished send has the success response if and only if its message
\* is in the store.
C2_SuccessIffPersisted ==
    \A s \in SendIds : send[s].pc = "done" =>
        ( send[s].resp.status = 200 <=> Persisted(s) )

C3_Step(s) ==
    /\ ( send[s].pc = "idle" /\ send'[s].pc # "idle"
         /\ registered(active_connections, send'[s].message.receiver_username)
         /\ Len(messages') > Len(messages) ) =>
            /\ send'[s].pc = "sending"
            /\ send'[s].target = active_connections[send'[s].message.receiver_username]
            /\ { d \in delivered' : d.sid = s } = {}
            /\ { n \in notified' : n.sid = s } = {}
    /\ ( send[s].pc = "sending" /\ send'[s].push = "ok" ) =>
            /\ Cardinality({ d \in delivered' : d.sid = s }) = 1
            /\ \A d \in delivered' : d.sid = s =>
                   d.ws = send[s].target /\ d.text = send[s].text
            /\ Cardinality({ n \in notified' : n.sid = s }) =
                   IF send[s].receiver.fcm_token # NoToken THEN 1 ELSE 0
    /\ send[s].pc = "done" =>
            /\ { d \in delivered' : d.sid = s } = Delivered(s)
            /\ { n \in notified' : n.sid = s } = Notified(s)

ContentFree(m, content) ==
    /\ m.token # content
    /\ m.title[1] # content /\ m.title[2] # content
    /\ m.body # content
    /\ m.data.type # content /\ m.data.sender # content

\* C4: a send that is persisted while the recipient is not registered and
\* holds a token puts nothing on any channel and invokes the notification
\* sink exactly once, with the recipient's token; the notification has no
\* field equal to the content, and two notifications for the same token and
\* sender are equal whatever the contents of their messages.
C4_Step(s) ==
    LET receiver == find_one_username(users, send'[s].message.receiver_username) IN
    /\ ( send[s].pc = "idle" /\ send'[s].pc # "idle"
         /\ Len(messages') > Len(messages)
         /\ ~ registered(active_connections, send'[s].message.receiver_username)
         /\ receiver.fcm_token # NoToken ) =>
            /\ send'[s].pc = "done"
            /\ { d \in delivered' : d.sid = s } = {}
            /\ Cardinality({ n \in notified' : n.sid = s }) = 1
            /\ \A n \in notified' : n.sid = s =>
                   /\ n.msg.token = receiver.fcm_token
                   /\ ContentFree(n.msg, send'[s].message.content)
    /\ ( send[s].pc = "done" /\ send[s].push = "none" ) =>
            /\ { d \in delivered' : d.sid = s } = Delivered(s)
            /\ { n \in notified' : n.sid = s } = Notified(s)

C4_SameWhateverContent ==
    \A n1, n2 \in notified :
        ( n1.msg.token = n2.msg.token /\ n1.msg.data.sender = n2.msg.data.sender )
            => n1.msg = n2.msg

C4_OfflineNotifiedOnce ==
    /\ [][ \A s \in SendIds : C4_Step(s) ]_vars
    /\ [] C4_SameWhateverContent

C4_Witness ==
    \E s \in SendIds : send[s].pc = "done" /\ send[s].push = "none"
        /\ send[s].resp = MessageSent
        /\ Delivered(s) = {} /\ Cardinality(Notified(s)) = 1

\* C5: a connect that completes leaves its own channel as the identity's
\* entry; a channel that a later connect replaced is never in the mapping
\* again, and no send that looks the identity up after the replacement is
\* pushed to it: every push goes to the channel registered at the lookup.
C5_Inv ==
    /\ \A u \in Usernames : active_connections[u] \notin superseded
    /\ \A s \in SendIds : send[s].pc = "sending" => ~ send[s].stale
    /\ \A d \in delivered : ~ d.stale

C5_Step ==
    /\ \A w \in WsIds : ( ws[w].pc = "accepting" /\ ws'[w].pc = "open" ) =>
           /\ active_connections'[ws[w].username] = w
           /\ \A u \in Usernames \ { ws[w].username } :
                  active_connections'[u] = active_connections[u]
    /\ \A s \in SendIds : ( send[s].pc = "idle" /\ send'[s].pc = "sending" ) =>
           send'[s].target = active_connections[send'[s].message.receiver_username]
    /\ \A s \in SendIds : ( send[s].pc = "sending" /\ send'[s].push = "ok" ) =>
           \A d \in delivered' : d.sid = s => d.ws = send[s].target

C6_EndedTaskUnregistered ==
    \A w \in WsIds : ws[w].pc = "ended" =>
        \A u \in Usernames : active_connections[u] # w

\* C7: right after a send whose write on the recipient's channel failed, the
\* recipient has no entry in the mapping.
C7_FailedPushUnregisters ==
    [][ \A s \in SendIds : ( send[s].pc = "sending" /\ send'[s].push = "failed" ) =>
            ~ registered(active_connections', send[s].message.receiver_username) ]_vars

\* C8: a send whose write on the recipient's channel failed, for a recipient
\* that holds a token, invokes the notification sink exactly once.
C8_DeadChannelFallsBack ==
    [][ \A s \in SendIds :
            ( send[s].pc = "sending" /\ send'[s].push = "failed"
              /\ send[s].receiver.fcm_token # NoToken ) =>
                Cardinality({ n \in notified' : n.sid = s }) = 1 ]_vars

\* the handles of the request that s becomes in this step do not both resolve
Unresolved(s) ==
    \/ find_one_email(users, send'[s].message.sender_email) = NoUser
    \/ find_one_username(users, send'[s].message.receiver_username) = NoUser

\* C9: a send whose sender or receiver handle does not resolve ends at once,
\* with the store, the channels and the notification sink as they were and no
\* push started.
C9_UnresolvedNoEffect ==
    [][ \A s \in SendIds :
            ( send[s].pc = "idle" /\ send'[s].pc # "idle" /\ Unresolved(s) ) =>
                /\ messages' = messages
                /\ delivered' = delivered
                /\ notified' = notified
                /\ send'[s].pc = "done"
                /\ send'[s].push = "none" ]_vars

C9_Witness ==
    \E s \in SendIds :
        /\ send[s].pc = "done"
        /\ \/ find_one_email(users, send[s].message.sender_email) = NoUser
           \/ find_one_username(users, send[s].message.receiver_username) = NoUser
        /\ ~ Persisted(s) /\ Delivered(s) = {} /\ Notified(s) = {}

\* C10: an unresolvable sender is answered 404 "Sender not found"; a
\* resolvable sender with an unresolvable receiver is answered 404 "Receiver
\* not found".
C10_NotFoundIs404 ==
    [][ \A s \in SendIds : ( send[s].pc = "idle" /\ send'[s].pc # "idle" ) =>
            /\ find_one_email(users, send'[s].message.sender_email) = NoUser =>
                   send'[s].resp = HTTPException(404, "Sender not found")
            /\ ( find_one_email(users, send'[s].message.sender_email) # NoUser
                 /\ find_one_username(users, send'[s].message.receiver_username) = NoUser ) =>
                   send'[s].resp = HTTPException(404, "Receiver not found") ]_vars

\* C11: when the handles resolve and the insert fails, the send ends in that
\* same step with the 500 response, nothing is stored for it, no payload of
\* it is pushed or in progress on any channel and the notification sink has
\* no call for it, then or later.
C11_Inv ==
    \A s \in SendIds : send[s].error = "insert_one failed" =>
        /\ send[s].pc = "done"
        /\ send[s].resp = HTTPException(500, "Failed to send message")
        /\ send[s].push = "none"
        /\ ~ Persisted(s)
        /\ Delivered(s) = {}
        /\ Notified(s) = {}

C11_Step(s) ==
    ( /\ send[s].pc = "idle" /\ send'[s].pc # "idle"
      /\ ~ not_found(find_one_email(users, send'[s].message.sender_email))
      /\ ~ not_found(find_one_username(users, send'[s].message.receiver_username))
      /\ messages' = messages )
    => /\ send'[s].error = "insert_one failed"
       /\ send'[s].resp.status = 500
       /\ delivered' = delivered /\ notified' = notified

C11_InsertFailureIsFailure == [] C11_Inv /\ [][ \A s \in SendIds : C11_Step(s) ]_vars

\* the insert failed for a send to a registered recipient that has a token
C11_Witness ==
    \E s \in SendIds :
        /\ send[s].error = "insert_one failed"
        /\ registered(active_connections, send[s].message.receiver_username)
        /\ has_token(find_one_username(users, send[s].message.receiver_username))

\* C12: a send that stores a message appends exactly one document; its
\* sender and receiver identities are those the input handles resolve to,
\* its timestamp is the clock value read by this request, and neither the
\* document nor the payload built from it carries the timestamp the client
\* supplied.  A send answered with success has exactly one document.
C12_Step(s) ==
    ( send[s].pc = "idle" /\ send'[s].pc # "idle" /\ messages' # messages )
    => /\ Len(messages') = Len(messages) + 1
       /\ SubSeq(messages', 1, Len(messages)) = messages
       /\ LET m   == messages'[Len(messages')]
              msg == send'[s].message
              sender == find_one_email(users, msg.sender_email)
          IN  /\ m._id = s
              /\ m.sender_email = msg.sender_email
              /\ m.receiver_username = msg.receiver_username
              /\ m.content = msg.content
              /\ m.sender_id = sender._id /\ m.sender_id # NoId
              /\ m.receiver_id = find_one_username(users, msg.receiver_username)._id
              /\ m.receiver_id # NoId
              /\ m.timestamp = now' /\ m.timestamp # ClientTs
              /\ send'[s].pc = "sending" =>
                     send'[s].text = PayloadOf(m, sender.username)

C12_Inv ==
    /\ \A s \in SendIds : send[s].pc = "done" /\ send[s].resp = MessageSent =>
           Cardinality({ i \in 1..Len(messages) : messages[i]._id = s }) = 1
    /\ \A i \in 1..Len(messages) : messages[i].timestamp \in 0..MaxClock
    /\ \A d \in delivered : \E i \in 1..Len(messages) :
           /\ messages[i]._id = d.sid
           /\ d.text[2].timestamp = isoformat(messages[i].timestamp)

C12_ServerIdentitiesAndTime == [] C12_Inv /\ [][ \A s \in SendIds : C12_Step(s) ]_vars

\* a successful, delivered send whose request carried a client timestamp
C12_Witness ==
    \E s \in SendIds :
        /\ send[s].pc = "done" /\ send[s].resp = MessageSent
        /\ send[s].message.timestamp = ClientTs
        /\ Persisted(s) /\ Delivered(s) # {}

\* C16: whatever the order in which connects finish their accept, disconnects
\* and sends run, the registry has at most one channel per identity, that
\* channel was opened for this identity and has not been replaced, and the
\* payload of one send is delivered on at most one channel, which belongs
\* to the message's receiver.
C16_Inv ==
    /\ \A u \in Usernames :
          /\ Cardinality({ w \in WsIds : registered(active_connections, u)
                                          /\ active_connections[u] = w }) <= 1
          /\ registered(active_connections, u) =>
                /\ ws[active_connections[u]].username = u
                /\ ws[active_connections[u]].pc \in { "open", "ended" }
                /\ active_connections[u] \notin superseded
    /\ \A s \in SendIds :
          /\ Cardinality({ d.ws : d \in Delivered(s) }) <= 1
          /\ \A d \in Delivered(s) : ws[d.ws].username = send[s].message.receiver_username

C16_Step == Cardinality(delivered' \ delivered) <= 1

C16_OneChannelPerIdentity == [] C16_Inv /\ [][ C16_Step ]_vars

\* two connects of one identity overlapped in their accept (the one that
\* arrived first wrote the mapping last) and a send was delivered on the
\* channel that is registered
C16_Witness ==
    \E v \in superseded : \E w \in WsIds :
        /\ w < v /\ ws[w].username = ws[v].username
        /\ active_connections[ws[v].username] = w
        /\ \E d \in delivered : d.ws = w

\* C17: a send whose call of the notification sink failed has its message
\* in the store and ends with the success response.
C17_SinkFailureKeepsSuccess ==
    \A n \in notified : ~ n.ok =>
        /\ Persisted(n.sid)
        /\ send[n.sid].pc = "done"
        /\ send[n.sid].resp = MessageSent

C17_Witness == \E n \in notified : ~ n.ok /\ send[n.sid].resp = MessageSent

\* C19 (as stated): when the receive loop of a connection ends with a
\* disconnect while the registry holds another, live channel for the same
\* identity, the entry of that channel stays.
C19_Step(w) ==
    LET u == ws[w].username IN
    ( /\ ws[w].pc = "open" /\ ~ ws[w].alive /\ ws'[w].pc = "ended"
      /\ registered(active_connections, u)
      /\ active_connections[u] # w
      /\ ws[active_connections[u]].alive )
    => active_connections'[u] = active_connections[u]

C19_StaleDisconnectKeepsNewer == [][ \A w \in WsIds : C19_Step(w) ]_vars

\* the pushes of send s: the websocket its payload was handed to and the text
\* (in progress, or written)
Pushes(s) ==
    ( IF send[s].pc = "sending"
      THEN { [ ws |-> send[s].target, text |-> send[s].text ] } ELSE {} )
    \cup { [ ws |-> d.ws, text |-> d.text ] : d \in Delivered(s) }

PositionOf(s) == CHOOSE i \in 1..Len(messages) : messages[i]._id = s
TimestampOf(s) == messages[PositionOf(s)].timestamp

\* two sends whose payloads went to the same websocket; the requests are
\* numbered in the order in which their handlers ran, which is the order in
\* which they called send_text
SameChannel(s1, s2) ==
    /\ s1 < s2 /\ Persisted(s1) /\ Persisted(s2)
    /\ \E p1 \in Pushes(s1), p2 \in Pushes(s2) : p1.ws = p2.ws

MaxMsgs == 2        \* number of messages in the store when it is read
DefaultLimit == 50  \* `limit: int = 50`
Limits == { 0, 1, 2, DefaultLimit }       \* the limit query parameter
Directory == Persons \cup { <<"c@x.com", "carol", 3>> }   \* the registered people
ReadEmails == { "a@x.com", "b@x.com", "n@x.com" }        \* user1_email, email
ReadUsernames == { "alice", "bob", "nobody" }            \* user2_username

Ok == [ status |-> 200, detail |-> "OK" ]

\* users_collection.find_one({"_id": partner_id}, ...)
find_one_id(coll, id) ==
    IF \E u \in coll : u._id = id THEN CHOOSE u \in coll : u._id = id ELSE NoUser

\* variant: only the messages user1 sent to user2
history_query_one_way(m, user1, user2) ==
    m.sender_id = user1._id /\ m.receiver_id = user2._id

\* the $or filter of get_chat_history
history_query(m, user1, user2) ==
    \/ m.sender_id = user1._id /\ m.receiver_id = user2._id
    \/ m.sender_id = user2._id /\ m.receiver_id = user1._id

\* messages_collection.find({"$or": ...}): the matching documents
find(coll, user1, user2) ==
    { coll[i] : i \in { j \in 1..Len(coll) : history_query(coll[j], user1, user2) } }

\* .sort("timestamp", direction) and {"$sort": {"timestamp": direction}}: the
\* orders in which the documents can come out; documents with equal
\* timestamps come in any order
sort_timestamp(docs, direction) ==
    { o \in [ 1..Cardinality(docs) -> docs ] :
        /\ \A i, j \in 1..Cardinality(docs) : i # j => o[i] # o[j]
        /\ \A i \in 1..(Cardinality(docs) - 1) :
              IF direction = 1 THEN o[i].timestamp <= o[i + 1].timestamp
                               ELSE o[i].timestamp >= o[i + 1].timestamp }

\* .limit(limit) of a pymongo cursor: 0 is no limit, a negative limit is
\* its absolute value (in one batch)
cursor_limit(cursor, limit) ==
    IF limit = 0 THEN cursor
    ELSE LET n == IF limit < 0 THEN 0 - limit ELSE limit
         IN  SubSeq(cursor, 1, IF n < Len(cursor) THEN n ELSE Len(cursor))

\* the projection {"_id": 0, "sender_id": 0, "receiver_id": 0} and is_me
history_entry(m, user1_email) ==
    [ sender_email |-> m.sender_email, receiver_username |-> m.receiver_username,
      content |-> m.content, timestamp |-> m.timestamp,
      is_me |-> (m.sender_email = user1_email) ]

\* `except Exception as e:` of get_chat_history
history_except(exc) == HTTPException(500, "Failed to retrieve chat history")

\* get_chat_history: the responses it can give
get_chat_history(ucoll, mcoll, user1_email, user2_username, limit) ==
    LET user1 == find_one_email(ucoll, user1_email)
        user2 == find_one_username(ucoll, user2_username)
    IN  IF not_found(user1) \/ not_found(user2)
        THEN { [ resp |-> history_except(HTTPException(404, "User not found")),
                 body |-> << >> ] }
        ELSE { [ resp |-> Ok,
                 body |-> [ i \in 1..Len(c) |-> history_entry(c[i], user1_email) ] ] :
               c \in { cursor_limit(o, limit) : o \in sort_timestamp(find(mcoll, user1, user2), 1) } }

\* the $match stage of get_conversations: the matching documents
conversations_match(coll, current_user_id) ==
    { coll[i] : i \in { j \in 1..Len(coll) :
        coll[j].sender_id = current_user_id \/ coll[j].receiver_id = current_user_id } }

\* the _id of the $group stage: the $cond on sender_id
partner_id(m, current_user_id) ==
    IF m.sender_id = current_user_id THEN m.receiver_id ELSE m.sender_id

\* the $group stage on the sorted documents o: one document per partner,
\* with $first of content and of timestamp
group_first(o, current_user_id) ==
    LET n == Cardinality(DOMAIN o)
        first(k) == o[CHOOSE i \in 1..n :
                        /\ partner_id(o[i], current_user_id) = k
                        /\ \A j \in 1..(i - 1) : partner_id(o[j], current_user_id) # k]
    IN  { [ _id |-> k, last_message |-> first(k).content, timestamp |-> first(k).timestamp ] :
          k \in { partner_id(o[i], current_user_id) : i \in 1..n } }

\* variant: the first $sort stage is ascending
latest_per_partner_ascending(mcoll, current_user_id) ==
    UNION { sort_timestamp(group_first(o, current_user_id), -1) :
            o \in sort_timestamp(conversations_match(mcoll, current_user_id), 1) }

\* messages_collection.aggregate(pipeline): $match, $sort, $group, $sort;
\* the lists it can return
latest_per_partner(mcoll, current_user_id) ==
    UNION { sort_timestamp(group_first(o, current_user_id), -1) :
            o \in sort_timestamp(conversations_match(mcoll, current_user_id), -1) }

\* the loop over the aggregation result: partners that resolve are listed
\* (the user documents of the model have no photo_url)
conversation_list(ucoll, conversations) ==
    LET resolves(convo) == find_one_id(ucoll, convo._id) # NoUser
        kept == SelectSeq(conversations, resolves)
    IN  [ i \in 1..Len(kept) |->
            [ username |-> find_one_id(ucoll, kept[i]._id).username,
              last_message |-> kept[i].last_message,
              timestamp |-> kept[i].timestamp ] ]

\* `except Exception as e:` of get_conversations
conversations_except(exc) == HTTPException(500, "Failed to fetch conversations")

\* get_conversations: the responses it can give
get_conversations(ucoll, mcoll, email) ==
    LET current_user == find_one_email(ucoll, email)
    IN  IF not_found(current_user)
        THEN { [ resp |-> conversations_except(HTTPException(404, "User not found")),
                 body |-> << >> ] }
        ELSE { [ resp |-> Ok, body |-> conversation_list(ucoll, conversations) ] :
               conversations \in latest_per_partner(mcoll, current_user._id) }

\* the user documents of the people D
UserDocs(D) ==
    { [ _id |-> p[3], email |-> p[1], username |-> p[2], fcm_token |-> NoToken ] : p \in D }

\* the stores that POST /send requests leave: the i-th message is any
\* message from one registered user to another, stamped with any reading
\* of the clock
Stores(ucoll) ==
    UNION { { [ i \in 1..n |->
                msg_data(i, Message(f[i][1].email, f[i][2].username, Content(i), NoTs),
                         f[i][1], f[i][2], f[i][3]) ] :
              f \in [ 1..n -> ucoll \X ucoll \X (0..MaxClock) ] } :
            n \in 0..MaxMsgs }

ReadInit ==
    /\ users = UserDocs(Directory)
    /\ messages \in Stores(users)
    /\ active_connections = no_connections
    /\ ws = [ w \in WsIds |-> [ pc |-> "new", username |-> "None", alive |-> FALSE ] ]
    /\ send = [ s \in SendIds |-> IdleSend ]
    /\ delivered = {}
    /\ notified = {}
    /\ now = 0
    /\ clock_went_back = FALSE
    /\ superseded = {}
    /\ reply = NoReply

\* GET /history?user1_email=..&user2_username=..&limit=..
GetChatHistory ==
    /\ reply = NoReply    \* one request per behaviour: the handlers leave the store as it is
    /\ \E user1_email \in ReadEmails, user2_username \in ReadUsernames, limit \in Limits :
        \E r \in get_chat_history(users, messages, user1_email, user2_username, limit) :
            reply' = [ op |-> "history", email |-> user1_email, username |-> user2_username,
                       limit |-> limit, resp |-> r.resp, body |-> r.body ]
    /\ UNCHANGED << users, messages, active_connections, ws, send, delivered, notified, now,
                    clock_went_back, superseded >>

\* GET /conversations?email=..
GetConversations ==
    /\ reply = NoReply
    /\ \E email \in ReadEmails :
        \E r \in get_conversations(users, messages, email) :
            reply' = [ op |-> "conversations", email |-> email, username |-> "None",
                       limit |-> 0, resp |-> r.resp, body |-> r.body ]
    /\ UNCHANGED << users, messages, active_connections, ws, send, delivered, notified, now,
                    clock_went_back, superseded >>

ReadNext == GetChatHistory \/ GetConversations

ReadSpec == ReadInit /\ [][ReadNext]_vars

\* ------------------------------------------------------ claims, read paths
\* the stored messages exchanged by the users with _id a and b
Between(a, b) ==
    { messages[i] : i \in { j \in 1..Len(messages) :
        \/ messages[j].sender_id = a /\ messages[j].receiver_id = b
        \/ messages[j].sender_id = b /\ messages[j].receiver_id = a } }

\* the stored message that a history entry shows
Shown(e, m) ==
    /\ e.sender_email = m.sender_email /\ e.receiver_username = m.receiver_username
    /\ e.content = m.content /\ e.timestamp = m.timestamp

\* the entries of a history body without their is_me flag
Unflagged(body) ==
    { [ sender_email |-> body[i].sender_email, receiver_username |-> body[i].receiver_username,
        content |-> body[i].content, timestamp |-> body[i].timestamp ] : i \in 1..Len(body) }

\* every entry of body has is_me true exactly when its message was sent by user
FlaggedFor(body, user) ==
    \A i \in 1..Len(body) : \E j \in 1..Len(messages) :
        /\ Shown(body[i], messages[j])
        /\ body[i].is_me <=> (messages[j].sender_id = user._id)

\* C13: when A asks for the history with B with a limit that covers all
\* messages, the answer to B asking for the history with A under the same
\* limit has the same messages, as many entries, and each of the two answers
\* flags exactly the messages its requester sent.
C13_HistoryIsSymmetric ==
    ( reply.op = "history" /\ reply.resp = Ok /\ reply.limit >= Len(messages) ) =>
        LET A == find_one_email(users, reply.email)
            B == find_one_username(users, reply.username)
        IN  /\ FlaggedFor(reply.body, A)
            /\ \A r \in get_chat_history(users, messages, B.email, A.username, reply.limit) :
                  /\ r.resp = Ok
                  /\ Unflagged(r.body) = Unflagged(reply.body)
                  /\ Len(r.body) = Len(reply.body)
                  /\ FlaggedFor(r.body, B)

\* a history of two different users with messages in both directions
C13_Witness ==
    /\ reply.op = "history" /\ reply.resp = Ok /\ reply.limit >= Len(messages)
    /\ find_one_email(users, reply.email).username # reply.username
    /\ \E i, j \in 1..Len(reply.body) : reply.body[i].is_me /\ ~ reply.body[j].is_me

\* C14 (as stated): a history answer is non-decreasing by timestamp, shows
\* only messages exchanged by the two users and has at most limit entries.
C14_HistorySortedBetweenLimited ==
    ( reply.op = "history" /\ reply.resp = Ok ) =>
        LET A == find_one_email(users, reply.email)
            B == find_one_username(users, reply.username)
        IN  /\ \A i \in 1..(Len(reply.body) - 1) :
                  reply.body[i].timestamp <= reply.body[i + 1].timestamp
            /\ \A i \in 1..Len(reply.body) :
                  \E m \in Between(A._id, B._id) : Shown(reply.body[i], m)
            /\ Len(reply.body) <= reply.limit

\* C15: a conversations answer has at most one entry per partner, each entry
\* shows a message exchanged with that partner, in either direction, that no
\* other message exchanged with the partner is later than, and the entries
\* are non-increasing by timestamp.
C15_LatestPerPartner ==
    ( reply.op = "conversations" /\ reply.resp = Ok ) =>
        LET U == find_one_email(users, reply.email)
        IN  /\ \A i, j \in 1..Len(reply.body) :
                  i # j => reply.body[i].username # reply.body[j].username
            /\ \A i \in 1..Len(reply.body) :
                  LET P == find_one_username(users, reply.body[i].username)
                  IN  \E m \in Between(U._id, P._id) :
                        /\ m.content = reply.body[i].last_message
                        /\ m.timestamp = reply.body[i].timestamp
                        /\ \A m2 \in Between(U._id, P._id) : m2.timestamp <= m.timestamp
            /\ \A i \in 1..(Len(reply.body) - 1) :
                  reply.body[i].timestamp >= reply.body[i + 1].timestamp

\* an entry for a partner with an older message one way and a newer message
\* the other way
C15_Witness ==
    /\ reply.op = "conversations" /\ reply.resp = Ok
    /\ \E i \in 1..Len(reply.body) :
          LET U == find_one_email(users, reply.email)
              P == find_one_username(users, reply.body[i].username)
          IN  \E m1, m2 \in Between(U._id, P._id) :
                /\ m1.sender_id = U._id /\ m2.sender_id = P._id /\ U # P
                /\ m1.timestamp # m2.timestamp

\* C18 (as stated): a read request with a handle that does not resolve is
\* answered 404.
C18_ReadNotFoundIs404 ==
    /\ ( /\ reply.op = "history"
          /\ \/ not_found(find_one_email(users, reply.email))
             \/ not_found(find_one_username(users, reply.username)) )
       => reply.resp.status = 404
    /\ ( reply.op = "conversations" /\ not_found(find_one_email(users, reply.email)) )
       => reply.resp.status = 404
====
